---- MODULE Spec2Model ----
(***************************************************************************)
(* Delay provider on the 32-bit general purpose timers TIM2 / TIM5         *)
(* (src/delay/timer.rs).                                                   *)
(*                                                                         *)
(* A u32 is kept as the pair <<hi, lo>> of its 16-bit halves, so that the  *)
(* full 32-bit range, the u16 cast and the wrap-around of `<< 1` are       *)
(* modelled at their real width.  A u16 is a plain number in 0..65535.     *)
(***************************************************************************)
EXTENDS Integers, Sequences, FiniteSets, TLC

\* ------------------------------------------------------------------ bounds
\* Delay calls made on one driver in one behaviour.
MaxCalls == 2
\* Single hardware ticks followed one by one before the counter is run on
\* to the reload value in one step.
MaxTicks == 2

\* ------------------------------------------------------- 32-bit arithmetic
\* Number of values of a u16 (the prescaler parameter and the PSC register).
U16Range == 65536

\* The u32 whose value is n, for a literal n < 2^31.
U32Lit(n) == <<n \div U16Range, n % U16Range>>

ZeroU32 == <<0, 0>>
OneU32 == <<0, 1>>
\* u32::MAX, also the reset value of the auto-reload register.
MaxU32 == <<U16Range - 1, U16Range - 1>>

\* a <= b on u32
LeU32(a, b) == a[1] < b[1] \/ (a[1] = b[1] /\ a[2] <= b[2])

\* core::cmp::max on u32
max(a, b) == IF LeU32(a, b) THEN b ELSE a

\* Bit i of a 16-bit half.
BitOf(h, i) == (h \div (2 ^ i)) % 2

\* Binary long division of (r * 2^(i+1) + low bits i..0 of lo) by d, r < d:
\* the quotient, accumulated in q.
RECURSIVE LongDiv(_, _, _, _, _)
LongDiv(r, q, lo, i, d) ==
    IF i < 0 THEN q
    ELSE LET r2 == 2 * r + BitOf(lo, i)
         IN  IF r2 >= d THEN LongDiv(r2 - d, 2 * q + 1, lo, i - 1, d)
                        ELSE LongDiv(r2, 2 * q, lo, i - 1, d)

\* x / d on u32 (truncating), d a number in 1..2^30.
DivU32(x, d) == <<x[1] \div d, LongDiv(x[1] % d, 0, x[2], 15, d)>>

\* x << 1 on u32: the bit shifted out of bit 31 is lost.
Shl1(x) ==
    LET lo2 == 2 * x[2]
        hi2 == 2 * x[1] + lo2 \div U16Range
    IN  <<hi2 % U16Range, lo2 % U16Range>>

\* x + 1 on u32, wrapping (the hardware counter).
IncU32(x) ==
    IF x[2] + 1 < U16Range THEN <<x[1], x[2] + 1>>
    ELSE <<(x[1] + 1) % U16Range, 0>>

\* cast::u16(x: u32) -> Result<u16, Error>
u16_trunc(x) == [ok |-> TRUE, val |-> x[2]]
u16(x) == IF x[1] = 0 THEN [ok |-> TRUE, val |-> x[2]]
                      ELSE [ok |-> FALSE, val |-> 0]

\* cast::u32(v: u16) -> u32
u32(v) == <<0, v>>

\* ------------------------------------------------------------------ inputs
\* Bus clock frequencies (Clocks::pclk1) in Hz.
Freqs ==
    { U32Lit(999999), U32Lit(48000000), U32Lit(48500000),
      U32Lit(131071999), U32Lit(131072000), U32Lit(150000000), MaxU32 }

\* 32-bit requests; <<32768, 0>> is 2_147_483_648.
Args32 ==
    { ZeroU32, OneU32, U32Lit(100), U32Lit(1000), U32Lit(65536),
      U32Lit(2147483647), <<32768, 0>>, MaxU32 }

\* 16-bit requests.
Args16 == { 0, 1, 1000, 65535 }

\* Bit of the timer in RCC.APB1ENR / RCC.APB1RSTR: TIM2 is 0, TIM5 is 3.
EnBits == { 0, 3 }

\* ------------------------------------------------------------------- state
VARIABLES
    pc,          \* position of the driver's code
    clocks,      \* the Clocks snapshot: pclk1 in Hz
    en_bit,      \* $en_bit of the instantiation
    apb1enr,     \* RCC.APB1ENR, the set of its set bits
    apb1rstr,    \* RCC.APB1RSTR, the set of its set bits
    psc,         \* TIMx.PSC (preload register)
    psc_active,  \* the prescaler value the counter is clocked with
    arr,         \* TIMx.ARR
    cr1,         \* TIMx.CR1: [cen, opm, urs]
    cnt,         \* TIMx.CNT
    op,          \* the delay operation in progress / last called
    arg,         \* its argument, widened to u32
    prescaler,   \* $waitfn parameter
    auto_reload_register, \* $waitfn parameter
    panic,       \* the panic message, "" if none
    calls,       \* delay calls made so far
    log,         \* timer register accesses of the current call, in order
    counted,     \* the counter ticked since it was last enabled by the driver
    hw_cleared,  \* hardware cleared CEN since the driver last set it
    spun,        \* the polling loop body ran in the current call
    entry,       \* the timer registers as the current call found them
    owner,       \* who holds the pac::$TIM handle: "caller" or "driver"
    pc2          \* position of a second context constructing the other
                 \* timer's driver; "off" when there is none

vars == <<pc, clocks, en_bit, owner, pc2, apb1enr, apb1rstr, psc, psc_active, arr, cr1, cnt,
          op, arg, prescaler, auto_reload_register, panic, calls, log,
          counted, hw_cleared, spun, entry, owner, pc2>>

rcc == <<apb1enr, apb1rstr>>
tim == <<psc, psc_active, arr, cr1, cnt>>
locals == <<op, arg, prescaler, auto_reload_register>>
hist == <<log, counted, hw_cleared, spun, entry>>

\* The timer registers as one value.
Timer == [psc |-> psc, psc_active |-> psc_active, arr |-> arr, cr1 |-> cr1,
          cnt |-> cnt]

\* Reset value of TIMx.CR1.
Cr1Reset == [cen |-> FALSE, opm |-> FALSE, urs |-> FALSE]

\* The peripheral is clocked and out of reset.
Clocked == en_bit \in apb1enr /\ en_bit \notin apb1rstr

\* Before new(): either the timer is in its power-on state with the clock
\* gated, or it was used before and holds stale values.
Init ==
    /\ pc = "new"
    /\ clocks \in Freqs
    /\ en_bit \in EnBits
    /\ \/ /\ apb1enr = {} /\ apb1rstr = {}
          /\ psc = 0 /\ psc_active = 0 /\ arr = MaxU32
          /\ cr1 = Cr1Reset /\ cnt = ZeroU32
       \/ /\ apb1enr = {en_bit} /\ apb1rstr = {}
          /\ psc = 7 /\ psc_active = 7 /\ arr = U32Lit(5)
          /\ cr1 = [cen |-> TRUE, opm |-> FALSE, urs |-> FALSE]
          /\ cnt = U32Lit(3)
    /\ op = "none" /\ arg = ZeroU32
    /\ prescaler = 0 /\ auto_reload_register = ZeroU32
    /\ panic = "" /\ calls = 0
    /\ log = <<>> /\ counted = FALSE /\ hw_cleared = FALSE /\ spun = FALSE
    /\ entry = Timer
    /\ owner = "caller"
    /\ pc2 = "off"

\* ---------------------------------------------------------------- helpers
\* bb::set / bb::clear: atomic write of one bit through the bit-band alias.
bb_set_whole(reg, bit) == {bit}
bb_set(reg, bit) == reg \cup {bit}
bb_clear(reg, bit) == reg \ {bit}

\* Prescaler for a 1 us tick, as a Result<u16, _>.
PscUs_khz(f) == u16(DivU32(f, 1000))
PscUs(f) == u16(DivU32(f, 1000000))

\* Prescaler for a 0.5 ms tick, as a Result<u16, _>.
PscMs_1ms(f) == u16(DivU32(f, 1000))
PscMs_us(f) == u16(DivU32(f, 1000000))
PscMs(f) == u16(DivU32(DivU32(f, 1000), 2))

\* assert!(ms <= 2_147_483_647); <<32767, 65535>> is 2^31 - 1.
AssertMs_none(ms) == TRUE
AssertMs(ms) == LeU32(ms, <<32767, 65535>>)

\* ARR value of the millisecond delays: the request doubled.
ArrMs_undoubled(ms) == ms
ArrMs(ms) == Shl1(ms)

\* ARR value of the 16-bit millisecond delay: widened, then doubled.
ArrMs16_narrow(ms) == u32((2 * ms) % U16Range)
ArrMs16(ms) == ArrMs(u32(ms))

\* The value $waitfn writes to ARR.
ArrValue_nofloor(a) == a
ArrValue(a) == max(OneU32, a)

\* The CR1 value that starts the counter: a whole-register write.
Cr1Start_noopm == [Cr1Reset EXCEPT !.cen = TRUE]
Cr1Start == [Cr1Reset EXCEPT !.opm = TRUE, !.cen = TRUE]

\* Loop condition of the busy wait, on the CR1 value read.
StillCounting_never(c) == FALSE
StillCounting(c) == c.cen

\* The statements of $waitfn in program order.
WaitOrder_late_ug == <<"psc", "arr", "start", "urs_set", "ug", "urs_clr", "poll">>
WaitOrder == <<"psc", "arr", "urs_set", "ug", "urs_clr", "start", "poll">>

WaitIndex(p) == CHOOSE i \in 1..Len(WaitOrder) : WaitOrder[i] = p
\* The position after statement p; "idle" is the return to the caller.
After(p) ==
    IF WaitIndex(p) = Len(WaitOrder) THEN "idle" ELSE WaitOrder[WaitIndex(p) + 1]

\* An update event of the timer: the counter restarts, the prescaler preload
\* is taken over, and in one-pulse mode the counter is stopped.
UpdateEvent ==
    /\ cnt' = ZeroU32
    /\ psc_active' = psc
    /\ cr1' = IF cr1.opm THEN [cr1 EXCEPT !.cen = FALSE] ELSE cr1

\* Writing UG to the event generation register forces an update event.
EgrUg_ignored == UNCHANGED <<cnt, psc_active, cr1>>
EgrUg == UpdateEvent

\* ------------------------------------------------------------------- new()
\* The statements of new in program order.
NewOrder_opm_first == <<"new", "new_dsb", "new_opm", "new_rst_set", "new_rst_clr">>
NewOrder == <<"new", "new_dsb", "new_rst_set", "new_rst_clr", "new_opm">>

NewIndex(p) == CHOOSE i \in 1..Len(NewOrder) : NewOrder[i] = p
\* The position after statement p of new; "idle" is the constructed driver.
NewAfter(p) ==
    IF NewIndex(p) = Len(NewOrder) THEN "idle" ELSE NewOrder[NewIndex(p) + 1]

\* The peripheral reset puts every timer register at its reset value.
PeripheralReset_none == UNCHANGED <<psc, psc_active, arr, cr1, cnt>>
PeripheralReset ==
    /\ psc' = 0 /\ psc_active' = 0 /\ arr' = MaxU32
    /\ cr1' = Cr1Reset /\ cnt' = ZeroU32

\* tim.cr1.modify(|_, w| w.opm().enabled())
OpmEnabled_skipped(c) == c
OpmEnabled(c) == [c EXCEPT !.opm = TRUE]

new_enable ==
    /\ pc = "new"
    /\ apb1enr' = bb_set(apb1enr, en_bit)
    /\ log' = Append(log, "apbenr.set")
    /\ pc' = NewAfter("new")
    /\ UNCHANGED <<clocks, en_bit, owner, pc2, apb1rstr, tim, locals, panic, calls,
                   counted, hw_cleared, spun, entry>>

new_dsb ==
    /\ pc = "new_dsb"
    /\ log' = Append(log, "dsb")
    /\ pc' = NewAfter("new_dsb")
    /\ UNCHANGED <<clocks, en_bit, owner, pc2, rcc, tim, locals, panic, calls,
                   counted, hw_cleared, spun, entry>>

\* Setting the reset bit puts every timer register at its reset value.
new_reset_set ==
    /\ pc = "new_rst_set"
    /\ apb1rstr' = bb_set(apb1rstr, en_bit)
    /\ PeripheralReset
    /\ log' = Append(log, "apbrstr.set")
    /\ pc' = NewAfter("new_rst_set")
    /\ UNCHANGED <<clocks, en_bit, owner, pc2, apb1enr, locals, panic, calls,
                   counted, hw_cleared, spun, entry>>

new_reset_clear ==
    /\ pc = "new_rst_clr"
    /\ apb1rstr' = bb_clear(apb1rstr, en_bit)
    /\ log' = Append(log, "apbrstr.clear")
    /\ pc' = NewAfter("new_rst_clr")
    /\ UNCHANGED <<clocks, en_bit, owner, pc2, apb1enr, tim, locals, panic, calls,
                   counted, hw_cleared, spun, entry>>

new_opm ==
    /\ pc = "new_opm"
    /\ cr1' = OpmEnabled(cr1)
    /\ log' = Append(log, "cr1.opm")
    /\ owner' = "driver"
    /\ pc' = NewAfter("new_opm")
    /\ UNCHANGED <<clocks, en_bit, pc2, rcc, psc, psc_active, arr, cnt, locals,
                   panic, calls, counted, hw_cleared, spun, entry>>

\* ------------------------------------------------------------------ free()
free_gates_clock ==
    /\ pc = "idle"
    /\ pc' = "freed"
    /\ owner' = "caller"
    /\ apb1enr' = bb_clear(apb1enr, en_bit)
    /\ UNCHANGED <<clocks, en_bit, pc2, apb1rstr, tim, locals, panic, calls,
                   hist>>

free_resets_cr1 ==
    /\ pc = "idle"
    /\ pc' = "freed"
    /\ owner' = "caller"
    /\ cr1' = Cr1Reset
    /\ UNCHANGED <<clocks, en_bit, pc2, rcc, psc, psc_active, arr, cnt, locals,
                   panic, calls, hist>>

free ==
    /\ pc = "idle"
    /\ pc' = "freed"
    /\ owner' = "caller"
    /\ UNCHANGED <<clocks, en_bit, pc2, rcc, tim, locals, panic, calls, hist>>

\* ------------------------------------------------------- delay operations
\* Entry of a delay operation up to its call of $waitfn: p is the prescaler
\* Result that .expect() unwraps, r the ARR argument.
Enter(name, a, p, r) ==
    /\ op' = name
    /\ arg' = a
    /\ calls' = calls + 1
    /\ log' = <<>> /\ counted' = FALSE /\ hw_cleared' = FALSE /\ spun' = FALSE
    /\ entry' = Timer
    /\ IF p.ok
       THEN /\ prescaler' = p.val
            /\ auto_reload_register' = r
            /\ pc' = WaitOrder[1]
            /\ panic' = panic
       ELSE /\ pc' = "panicked"
            /\ panic' = "Prescaler does not fit in u16"
            /\ UNCHANGED <<prescaler, auto_reload_register>>
    /\ UNCHANGED <<clocks, en_bit, owner, pc2, rcc, tim>>

delay_us_u32(us) ==
    /\ pc = "idle" /\ calls < MaxCalls
    /\ Enter("us32", us, PscUs(clocks), us)

delay_us_u16(us) ==
    /\ pc = "idle" /\ calls < MaxCalls
    /\ Enter("us16", u32(us), PscUs(clocks), u32(us))

delay_ms_u32(ms) ==
    /\ pc = "idle" /\ calls < MaxCalls
    /\ IF AssertMs(ms)
       THEN Enter("ms32", ms, PscMs(clocks), ArrMs(ms))
       ELSE /\ pc' = "panicked"
            /\ panic' = "assertion failed: ms <= 2_147_483_647"
            /\ op' = "ms32" /\ arg' = ms /\ calls' = calls + 1
            /\ log' = <<>> /\ counted' = FALSE /\ hw_cleared' = FALSE
            /\ spun' = FALSE /\ entry' = Timer
            /\ UNCHANGED <<clocks, en_bit, owner, pc2, rcc, tim, prescaler,
                           auto_reload_register>>

delay_ms_u16(ms) ==
    /\ pc = "idle" /\ calls < MaxCalls
    /\ Enter("ms16", u32(ms), PscMs(clocks), ArrMs16(ms))

\* ----------------------------------------------------------------- $waitfn
wait_psc_write ==
    /\ pc = "psc"
    /\ psc' = prescaler
    /\ log' = Append(log, "psc.write")
    /\ pc' = After("psc")
    /\ UNCHANGED <<clocks, en_bit, owner, pc2, rcc, psc_active, arr, cr1, cnt, locals,
                   panic, calls, counted, hw_cleared, spun, entry>>

wait_arr_write ==
    /\ pc = "arr"
    /\ arr' = ArrValue(auto_reload_register)
    /\ log' = Append(log, "arr.write")
    /\ pc' = After("arr")
    /\ UNCHANGED <<clocks, en_bit, owner, pc2, rcc, psc, psc_active, cr1, cnt, locals,
                   panic, calls, counted, hw_cleared, spun, entry>>

wait_urs_set ==
    /\ pc = "urs_set"
    /\ cr1' = [cr1 EXCEPT !.urs = TRUE]
    /\ log' = Append(log, "cr1.urs.set")
    /\ pc' = After("urs_set")
    /\ UNCHANGED <<clocks, en_bit, owner, pc2, rcc, psc, psc_active, arr, cnt, locals,
                   panic, calls, counted, hw_cleared, spun, entry>>

wait_egr_ug ==
    /\ pc = "ug"
    /\ EgrUg
    /\ log' = Append(log, IF cr1.cen THEN "egr.ug while counting" ELSE "egr.ug")
    /\ pc' = After("ug")
    /\ UNCHANGED <<clocks, en_bit, owner, pc2, rcc, psc, arr, locals, panic, calls,
                   counted, hw_cleared, spun, entry>>

wait_urs_clear ==
    /\ pc = "urs_clr"
    /\ cr1' = [cr1 EXCEPT !.urs = FALSE]
    /\ log' = Append(log, "cr1.urs.clear")
    /\ pc' = After("urs_clr")
    /\ UNCHANGED <<clocks, en_bit, owner, pc2, rcc, psc, psc_active, arr, cnt, locals,
                   panic, calls, counted, hw_cleared, spun, entry>>

wait_start ==
    /\ pc = "start"
    /\ cr1' = Cr1Start
    /\ log' = Append(log, "cr1.write")
    /\ counted' = FALSE /\ hw_cleared' = FALSE
    /\ pc' = After("start")
    /\ UNCHANGED <<clocks, en_bit, owner, pc2, rcc, psc, psc_active, arr, cnt, locals,
                   panic, calls, spun, entry>>

\* One evaluation of the loop condition: spin, or leave the loop.
wait_poll ==
    /\ pc = "poll"
    /\ IF StillCounting(cr1)
       THEN /\ spun' = TRUE
            /\ UNCHANGED <<pc, log>>
       ELSE /\ pc' = After("poll")
            /\ log' = Append(log, "cr1.read")
            /\ UNCHANGED spun
    /\ UNCHANGED <<clocks, en_bit, owner, pc2, rcc, tim, locals, panic, calls,
                   counted, hw_cleared, entry>>

\* ---------------------------------------------------------------- hardware
\* The counter runs while it is clocked and enabled; it is blocked while the
\* auto-reload value is 0.
Running == Clocked /\ cr1.cen /\ arr # ZeroU32

\* One counter tick.
hw_tick ==
    /\ Running
    /\ ~LeU32(arr, cnt)
    /\ ~LeU32(U32Lit(MaxTicks), cnt)
    /\ cnt' = IncU32(cnt)
    /\ counted' = TRUE
    /\ UNCHANGED <<pc, clocks, en_bit, owner, pc2, rcc, psc, psc_active, arr, cr1, locals,
                   panic, calls, log, hw_cleared, spun, entry>>

\* The remaining ticks up to the reload value, taken in one step.
hw_run ==
    /\ Running
    /\ ~LeU32(arr, cnt)
    /\ cnt' = arr
    /\ counted' = TRUE
    /\ UNCHANGED <<pc, clocks, en_bit, owner, pc2, rcc, psc, psc_active, arr, cr1, locals,
                   panic, calls, log, hw_cleared, spun, entry>>

\* The counter reached the reload value: update event.
hw_overflow ==
    /\ Running
    /\ LeU32(arr, cnt)
    /\ UpdateEvent
    /\ hw_cleared' = (hw_cleared \/ cr1.opm)
    /\ UNCHANGED <<pc, clocks, en_bit, owner, pc2, rcc, psc, arr, locals, panic, calls,
                   log, counted, spun, entry>>

\* ----------------------------------------------------------- specification
Wait ==
    \/ wait_psc_write
    \/ wait_arr_write
    \/ wait_urs_set
    \/ wait_egr_ug
    \/ wait_urs_clear
    \/ wait_start
    \/ wait_poll

Hardware ==
    \/ hw_tick
    \/ hw_run
    \/ hw_overflow

Next ==
    \/ new_enable
    \/ new_dsb
    \/ new_reset_set
    \/ new_reset_clear
    \/ new_opm
    \/ free
    \/ \E us \in Args32 : delay_us_u32(us)
    \/ \E us \in Args16 : delay_us_u16(us)
    \/ \E ms \in Args32 : delay_ms_u32(ms)
    \/ \E ms \in Args16 : delay_ms_u16(ms)
    \/ Wait
    \/ Hardware

Spec == Init /\ [][Next]_vars

\* The code keeps running and the counter keeps being clocked.
LiveSpec == Spec /\ WF_vars(Wait) /\ WF_vars(Hardware)

\* ------------------------------------------------------- exact arithmetic
\* A natural number below 2^47 as <<hi, lo>>, lo a 16-bit half and hi not
\* limited to 16 bits: the exact results the 32-bit ones are compared with.
MulNat(x, k) ==
    LET lo == x[2] * k
    IN  <<x[1] * k + lo \div U16Range, lo % U16Range>>

\* q = floor(f / (d1 * d2)), stated by multiplication: q*d <= f < (q+1)*d.
IsQuotient(q, f, d1, d2) ==
    /\ LeU32(MulNat(MulNat(<<0, q>>, d1), d2), f)
    /\ ~LeU32(MulNat(MulNat(<<0, q + 1>>, d1), d2), f)

\* max(1, n) for an exact natural number n.
FloorOne(n) == IF n = ZeroU32 THEN OneU32 ELSE n

\* The current call got past its checks and wrote PSC and ARR.
Written ==
    /\ calls > 0
    /\ \E i \in 1..Len(log) : log[i] = "psc.write"
    /\ \E i \in 1..Len(log) : log[i] = "arr.write"

IsUs == op \in {"us32", "us16"}
IsMs == op \in {"ms32", "ms16"}

\* floor(f / (d1 * d2)) exceeds 65535: 65536 * d1 * d2 <= f.
TooBig(f, d1, d2) == LeU32(MulNat(MulNat(<<1, 0>>, d1), d2), f)

\* The prescaler the operation in progress asks for does not fit 16 bits.
DividerTooBig ==
    \/ IsUs /\ TooBig(clocks, 1000, 1000)
    \/ IsMs /\ TooBig(clocks, 2000, 1)
\* 2^31 - 1, the largest request of the 32-bit delay_ms.
MaxMs == U32Lit(2147483647)

\* ------------------------------------------------------------------ claims
\* C1: delay_us(u), in both input widths and at every clock f, does not fail
\* and writes PSC = floor(f / 1_000_000) and ARR = max(1, u); at 48 MHz
\* delay_us(1000) writes PSC 48 and ARR 1000.
C1_DelayUsWrites ==
    IsUs =>
        /\ pc # "panicked"
        /\ Written =>
            /\ IsQuotient(psc, clocks, 1000, 1000)
            /\ arr = FloorOne(arg)
            /\ (clocks = U32Lit(48000000) /\ arg = U32Lit(1000))
                   => (psc = 48 /\ arr = <<0, 1000>>)

C1_Witness ==
    /\ op = "us32" /\ clocks = U32Lit(48000000) /\ arg = U32Lit(1000)
    /\ pc = "poll" /\ psc = 48 /\ arr = <<0, 1000>>

\* C2: the 32-bit delay_ms(m) with m <= 2^31 - 1 at a clock f with
\* f/1000/2 <= 65535 does not fail and writes PSC = floor(f / 2000) and
\* ARR = max(1, 2m), 2m being the exact product; at 48 MHz delay_ms(100)
\* writes PSC 24000 and ARR 200.
C2_DelayMs32Writes ==
    (op = "ms32" /\ LeU32(arg, MaxMs) /\ ~TooBig(clocks, 2000, 1)) =>
        /\ pc # "panicked"
        /\ Written =>
            /\ IsQuotient(psc, clocks, 2000, 1)
            /\ arr = FloorOne(MulNat(arg, 2))
            /\ (clocks = U32Lit(48000000) /\ arg = U32Lit(100))
                   => (psc = 24000 /\ arr = <<0, 200>>)

C2_Witness ==
    /\ op = "ms32" /\ clocks = U32Lit(48000000) /\ arg = U32Lit(100)
    /\ pc = "poll" /\ psc = 24000 /\ arr = <<0, 200>>

\* C3: a delay operation whose prescaler floor(f / tick) exceeds 65535 fails
\* before any timer register is written: PSC, ARR and CR1 are as the call
\* found them and CEN is clear.
C3_DividerOverflow ==
    DividerTooBig =>
        /\ pc = "panicked"
        /\ (op = "ms16" \/ LeU32(arg, MaxMs))
               => panic = "Prescaler does not fit in u16"
        /\ log = <<>>
        /\ Timer = entry
        /\ ~cr1.cen

C3_Witness ==
    /\ pc = "panicked" /\ panic = "Prescaler does not fit in u16"
    /\ calls = 2 /\ psc = 150 /\ arr = <<0, 1000>> /\ Timer = entry

\* C4: the 32-bit delay_ms(m) with m > 2^31 - 1 fails on its assertion at
\* every clock, before any timer register is written; the timer stays idle.
C4_DurationOverflow ==
    (op = "ms32" /\ ~LeU32(arg, MaxMs)) =>
        /\ pc = "panicked"
        /\ panic = "assertion failed: ms <= 2_147_483_647"
        /\ log = <<>>
        /\ Timer = entry
        /\ ~cr1.cen

C4_Witness ==
    /\ pc = "panicked" /\ op = "ms32" /\ arg = <<32768, 0>>
    /\ panic = "assertion failed: ms <= 2_147_483_647"
    /\ calls = 2 /\ clocks = U32Lit(48000000) /\ psc = 48 /\ Timer = entry

\* C5: once the driver is constructed ARR never holds 0, whatever was
\* written to it, and a request of 0 writes exactly 1 in all four delays.
C5_ReloadNeverZero ==
    /\ pc \in {"idle", "freed", "panicked"} \cup {WaitOrder[i] : i \in 1..Len(WaitOrder)}
           => arr # ZeroU32
    /\ (Written /\ arg = ZeroU32) => arr = OneU32

C5_Witness ==
    /\ Written /\ arg = ZeroU32 /\ arr = OneU32 /\ op = "ms16" /\ pc = "idle"

\* C6: a delay operation returns only after the counter, enabled by this
\* call, ticked at least once and was stopped by the hardware: on return CEN
\* is clear, and no operation returns without having counted, a request of 0
\* included.
C6_ReturnsAfterCounting ==
    (pc = "idle" /\ calls > 0) =>
        /\ ~cr1.cen
        /\ counted
        /\ hw_cleared
        /\ \E i \in 1..Len(log) : log[i] = "cr1.write"

C6_Witness ==
    /\ pc = "idle" /\ calls = 1 /\ op = "us16" /\ arg = ZeroU32
    /\ counted /\ hw_cleared /\ ~cr1.cen /\ spun

\* C7: with the code and the counter making progress, every delay operation
\* that passed its checks leaves the polling loop and returns.
C7_WaitTerminates ==
    (pc \in {WaitOrder[i] : i \in 1..Len(WaitOrder)}) ~> (pc = "idle")

C7_Witness ==
    /\ pc = "idle" /\ calls = 2 /\ op = "ms32" /\ arg = MaxMs
    /\ arr = <<65535, 65534>> /\ log[Len(log)] = "cr1.read"

\* C8: each delay counts exactly the requested duration: for a request
\* v >= 1 that does not fail, delay_us gives PSC * 1_000_000 = f and
\* delay_ms gives PSC * 2000 = f.
C8_ExactDuration ==
    (Written /\ arg # ZeroU32) =>
        /\ IsUs => MulNat(MulNat(<<0, psc>>, 1000), 1000) = clocks
        /\ IsMs => MulNat(<<0, psc>>, 2000) = clocks

\* C9: while a call is counting, the prescaler and the reload value in
\* effect are those of this call's argument, whatever the call before left
\* in the timer.
C9_SecondCallIndependent ==
    (pc = "poll" /\ cr1.cen /\ calls > 0) =>
        /\ psc_active = psc
        /\ cnt = ZeroU32 \/ counted
        /\ IsUs => /\ IsQuotient(psc_active, clocks, 1000, 1000)
                   /\ arr = FloorOne(arg)
        /\ IsMs => /\ IsQuotient(psc_active, clocks, 2000, 1)
                   /\ arr = FloorOne(MulNat(arg, 2))

C9_Witness ==
    /\ pc = "poll" /\ cr1.cen /\ calls = 2
    /\ entry.psc_active # psc_active /\ entry.arr # arr
    /\ op = "us32" /\ arr = OneU32

\* C10: $waitfn accesses the timer in this order: PSC write, ARR write, URS
\* set, UG, URS clear, one CR1 write setting OPM and CEN together, then the
\* CEN poll; UG is written while CEN is clear, so only the counter reaching
\* the reload value ends the wait.
WaitAccesses ==
    <<"psc.write", "arr.write", "cr1.urs.set", "egr.ug", "cr1.urs.clear",
      "cr1.write", "cr1.read">>

C10_AccessOrder ==
    (calls > 0 /\ pc # "panicked") =>
        /\ Len(log) <= Len(WaitAccesses)
        /\ \A i \in 1..Len(log) : log[i] = WaitAccesses[i]
        /\ pc = "poll" => Len(log) = 6
        /\ pc \in {"idle", "freed"} => Len(log) = 7
        /\ (pc = "poll" /\ ~hw_cleared) => cr1 = [cen |-> TRUE, opm |-> TRUE, urs |-> FALSE]
        /\ (pc = "poll" /\ ~cr1.cen) => hw_cleared

C10_Witness ==
    /\ pc = "poll" /\ cr1.cen /\ ~counted /\ spun
    /\ log = SubSeq(WaitAccesses, 1, 6)

\* The positions inside new: the driver is not constructed yet.
InNew == pc \in {NewOrder[i] : i \in 1..Len(NewOrder)}

\* C11: from the return of new onward the one-pulse bit of CR1 is set in
\* every state: across delay operations that succeed or fail, and after the
\* whole-register CR1 write that starts the counter.
C11_OnePulseAlways == ~InNew => cr1.opm

C11_Witness ==
    /\ pc = "poll" /\ calls = 2 /\ cr1.opm /\ cr1.cen
    /\ log[Len(log)] = "cr1.write"

\* C12: new sets the clock-enable bit, issues the barrier, sets and clears
\* the reset bit and then enables one-pulse mode, in this order: the timer
\* is first accessed with its clock enabled and out of reset, and the reset
\* does not undo the one-pulse bit.
NewAccesses ==
    <<"apbenr.set", "dsb", "apbrstr.set", "apbrstr.clear", "cr1.opm">>

C12_NewOrder ==
    calls = 0 =>
        /\ Len(log) <= Len(NewAccesses)
        /\ \A i \in 1..Len(log) : log[i] = NewAccesses[i]
        /\ Len(log) >= 1 => en_bit \in apb1enr
        /\ Len(log) = 3 => en_bit \in apb1rstr
        /\ Len(log) >= 4 => en_bit \notin apb1rstr
        /\ ~InNew =>
               /\ log = NewAccesses
               /\ Clocked
               /\ cr1 = [cen |-> FALSE, opm |-> TRUE, urs |-> FALSE]
               /\ psc = 0 /\ arr = MaxU32 /\ cnt = ZeroU32

C12_Witness ==
    /\ pc = "idle" /\ calls = 0 /\ log = NewAccesses /\ cr1.opm
    /\ owner = "driver" /\ en_bit = 3 /\ apb1enr = {3} /\ apb1rstr = {}

\* C13: free hands the timer handle back to the caller and changes no timer
\* register and no bit of the clock-enable and reset registers.
C13_FreeNoSideEffect ==
    [][(pc = "idle" /\ pc' = "freed") =>
           /\ owner = "driver" /\ owner' = "caller"
           /\ en_bit' = en_bit
           /\ Timer' = Timer
           /\ apb1enr' = apb1enr /\ apb1rstr' = apb1rstr]_vars

C13_Witness ==
    /\ pc = "freed" /\ owner = "caller" /\ calls = 2
    /\ psc = 24000 /\ arr = <<0, 200>> /\ cr1.opm /\ Clocked

\* C14 as stated: at 150 MHz delay_ms fails with the prescaler overflow for
\* every argument, in both input widths, before any register write.
C14_AlwaysDividerOverflow ==
    (clocks = U32Lit(150000000) /\ IsMs) =>
        /\ pc = "panicked"
        /\ panic = "Prescaler does not fit in u16"
        /\ log = <<>>
        /\ Timer = entry

\* C14: at 150 MHz (prescaler 75000) delay_ms fails for every argument, in
\* both input widths, before any register write: with the prescaler overflow,
\* except that the 32-bit variant with m > 2^31 - 1 fails on its assertion.
C14_FailsAt150MHz ==
    (clocks = U32Lit(150000000) /\ IsMs) =>
        /\ IsQuotient(75000, clocks, 2000, 1)
        /\ pc = "panicked"
        /\ panic = IF op = "ms32" /\ ~LeU32(arg, MaxMs)
                   THEN "assertion failed: ms <= 2_147_483_647"
                   ELSE "Prescaler does not fit in u16"
        /\ log = <<>>
        /\ Timer = entry
        /\ ~cr1.cen

C14_Witness ==
    /\ clocks = U32Lit(150000000) /\ op = "ms16" /\ arg = <<0, 1000>>
    /\ pc = "panicked" /\ panic = "Prescaler does not fit in u16"
    /\ calls = 2 /\ psc = 150

\* C15: the 16-bit delay_ms never fails because of its argument, and the
\* value it passes as ARR is exactly 2m, at most 131070.
C15_Ms16NoGuard ==
    op = "ms16" =>
        /\ arg[1] = 0
        /\ panic # "assertion failed: ms <= 2_147_483_647"
        /\ pc = "panicked" => DividerTooBig
        /\ pc # "panicked" =>
               /\ auto_reload_register = MulNat(arg, 2)
               /\ LeU32(auto_reload_register, U32Lit(131070))

C15_Witness ==
    /\ op = "ms16" /\ arg = <<0, 65535>> /\ pc = "poll"
    /\ auto_reload_register = <<1, 65534>> /\ arr = <<1, 65534>>

\* ------------------------------------- two drivers constructed concurrently
\* The enable / reset bit of the other instantiation (TIM5 for TIM2 and
\* the reverse).
OtherBit == CHOOSE b \in EnBits : b # en_bit

\* Bits of APB1ENR / APB1RSTR that belong to neither timer (bit 1 is TIM3).
ForeignBits == {1}

\* The position of the second context after statement p of its new.
OtherAfter(p) == IF NewAfter(p) = "idle" THEN "done" ELSE NewAfter(p)

\* What the second context never touches: this driver and its timer.
thisDriver == <<pc, clocks, en_bit, owner, tim, locals, panic, calls, hist>>

other_enable ==
    /\ pc2 = "new"
    /\ apb1enr' = bb_set(apb1enr, OtherBit)
    /\ pc2' = OtherAfter("new")
    /\ UNCHANGED <<thisDriver, apb1rstr>>

other_dsb ==
    /\ pc2 = "new_dsb"
    /\ pc2' = OtherAfter("new_dsb")
    /\ UNCHANGED <<thisDriver, rcc>>

other_reset_set ==
    /\ pc2 = "new_rst_set"
    /\ apb1rstr' = bb_set(apb1rstr, OtherBit)
    /\ pc2' = OtherAfter("new_rst_set")
    /\ UNCHANGED <<thisDriver, apb1enr>>

other_reset_clear ==
    /\ pc2 = "new_rst_clr"
    /\ apb1rstr' = bb_clear(apb1rstr, OtherBit)
    /\ pc2' = OtherAfter("new_rst_clr")
    /\ UNCHANGED <<thisDriver, apb1enr>>

\* The second context's CR1 write goes to its own timer.
other_opm ==
    /\ pc2 = "new_opm"
    /\ pc2' = OtherAfter("new_opm")
    /\ UNCHANGED <<thisDriver, rcc>>

\* Both constructions are about to start; other peripherals may already be
\* enabled or held in reset.
RccInit ==
    /\ pc = "new"
    /\ pc2 = "new"
    /\ clocks \in Freqs
    /\ en_bit \in EnBits
    /\ apb1enr \in SUBSET (EnBits \cup ForeignBits)
    /\ apb1rstr \in SUBSET ForeignBits
    /\ psc = 0 /\ psc_active = 0 /\ arr = MaxU32
    /\ cr1 = Cr1Reset /\ cnt = ZeroU32
    /\ op = "none" /\ arg = ZeroU32
    /\ prescaler = 0 /\ auto_reload_register = ZeroU32
    /\ panic = "" /\ calls = 0
    /\ log = <<>> /\ counted = FALSE /\ hw_cleared = FALSE /\ spun = FALSE
    /\ entry = Timer
    /\ owner = "caller"

RccNext ==
    \/ new_enable
    \/ new_dsb
    \/ new_reset_set
    \/ new_reset_clear
    \/ new_opm
    \/ other_enable
    \/ other_dsb
    \/ other_reset_set
    \/ other_reset_clear
    \/ other_opm

RccSpec == RccInit /\ [][RccNext]_vars

\* C16: with the TIM2 and TIM5 drivers constructed concurrently, in every
\* interleaving each context's bit writes persist: both clock-enable bits end
\* set, both reset bits end clear, and no step changes a bit of any other
\* peripheral.
C16_NoLostUpdate ==
    /\ [](/\ pc # "new" => en_bit \in apb1enr
          /\ pc2 # "new" => OtherBit \in apb1enr
          /\ pc \in {"new_opm", "idle"} => en_bit \notin apb1rstr
          /\ pc2 \in {"new_opm", "done"} => OtherBit \notin apb1rstr
          /\ (pc = "idle" /\ pc2 = "done") =>
                 /\ EnBits \subseteq apb1enr
                 /\ apb1rstr \cap EnBits = {})
    /\ [][/\ apb1enr' \cap ForeignBits = apb1enr \cap ForeignBits
          /\ apb1rstr' \cap ForeignBits = apb1rstr \cap ForeignBits]_vars

C16_Witness ==
    /\ pc = "idle" /\ pc2 = "done"
    /\ apb1enr = EnBits \cup ForeignBits /\ apb1rstr = ForeignBits

\* C17: whenever no delay call is in progress the timer is idle: CEN is clear
\* once new has returned, at the entry of every delay operation, at its
\* return and after its failure.
C17_IdleBetweenCalls ==
    /\ pc \in {"idle", "freed", "panicked"} => ~cr1.cen
    /\ calls > 0 => ~entry.cr1.cen

C17_Witness ==
    /\ pc = "idle" /\ calls = 2 /\ ~cr1.cen /\ ~entry.cr1.cen
    /\ hw_cleared /\ entry.arr = <<0, 100>>

C19_WidthsAgree ==
    arg[1] = 0 =>
        /\ IsUs =>
               /\ pc # "panicked"
               /\ IsQuotient(prescaler, clocks, 1000, 1000)
               /\ auto_reload_register = arg
               /\ Written => (psc = prescaler /\ arr = FloorOne(arg))
        /\ IsMs =>
               /\ pc = "panicked" <=> TooBig(clocks, 2000, 1)
               /\ pc # "panicked" =>
                      /\ IsQuotient(prescaler, clocks, 2000, 1)
                      /\ auto_reload_register = MulNat(arg, 2)
                      /\ Written =>
                             (psc = prescaler /\ arr = FloorOne(MulNat(arg, 2)))

C19_Witness ==
    /\ op = "ms32" /\ arg = <<0, 1000>> /\ calls = 2 /\ Written
    /\ entry.psc = psc /\ entry.arr = arr /\ arr = <<0, 2000>>

\* C20: from the return of new onward the timer's clock-enable bit is set and
\* its reset bit clear, and no step of a delay operation or of free changes
\* the clock-enable register, the reset register or the stored clock.
C20_RccUntouched ==
    /\ [](~InNew => Clocked)
    /\ [][~InNew =>
             /\ apb1enr' = apb1enr
             /\ apb1rstr' = apb1rstr
             /\ clocks' = clocks]_vars

C20_Witness ==
    /\ pc = "freed" /\ calls = 2 /\ Clocked /\ op = "us16"
    /\ log[Len(log)] = "cr1.read" /\ clocks = U32Lit(48500000)

====
